---------------------------- MODULE Spec2Model ----------------------------
(***************************************************************************)
(* A model of os-find (src/find.cpp): the command-line parser parseArgs,   *)
(* the predicate evaluator checkStat, the breadth-first walker bfs and the *)
(* driver main with its exec-and-wait helper execute.                      *)
(*                                                                         *)
(* Strings are sequences of one-character strings, so that the conversions *)
(* of the program (std::stoll, correctPath, path concatenation, strcmp)    *)
(* are computed and not assumed.                                           *)
(***************************************************************************)
EXTENDS Integers, Sequences, FiniteSets, TLC

VARIABLES
    argv,       \* argv[1..argc-1]: argv[i] is the C argv[i]; argv[0] is left out
    fs,         \* the directory tree on disk: canonical directory path -> entries
    pc,         \* position of the single thread
    request,    \* struct Request of main
    q,          \* std::queue<BfsNode> of bfs
    current,    \* BfsNode current of bfs
    result,     \* std::vector<std::string> result of bfs / files of main
    handles,    \* every DIR* that opendir returned: handle id -> [path, pos, closes]
    stderr,     \* lines printErr wrote
    stdout,     \* paths main printed
    summary,    \* exit code of the "Process finished" line, or NoSummary
    children,   \* child processes fork created
    childArgv,  \* argument vector handed to execve in the child
    forkFailed, \* fork returned -1
    exitCode,   \* status given to exit, or Running
    hist,       \* history of the walk (what lstat/opendir did, what was enqueued)
    chk         \* one call of checkStat: inputs and return value

vars == <<argv, fs, pc, request, q, current, result, handles, stderr, stdout,
          summary, children, childArgv, forkFailed, exitCode, hist, chk>>

-----------------------------------------------------------------------------
(* Bounds of the model *)

\* largest number of command-line arguments after ROOT
MaxArgs == 4
\* largest st_size / request.size drawn for a direct call of checkStat
MaxSize == 2

-----------------------------------------------------------------------------
(* Strings *)

Last(s) == s[Len(s)]

Range(s) == {s[i] : i \in 1..Len(s)}

\* the recognised flags, as parseArgs compares them
FlagInum == <<"-", "i", "n", "u", "m">>
FlagNlinks == <<"-", "n", "l", "i", "n", "k", "s">>
FlagName == <<"-", "n", "a", "m", "e">>
FlagPath == <<"-", "p", "a", "t", "h">>
FlagSize == <<"-", "s", "i", "z", "e">>
FlagExec == <<"-", "e", "x", "e", "c">>
\* a flag the parser does not know
FlagOther == <<"-", "l", "s">>

DigitChars == {"0", "1", "2", "3", "4", "5", "6", "7", "8", "9"}

DigitVal(c) ==
    CASE c = "0" -> 0 [] c = "1" -> 1 [] c = "2" -> 2 [] c = "3" -> 3
      [] c = "4" -> 4 [] c = "5" -> 5 [] c = "6" -> 6 [] c = "7" -> 7
      [] c = "8" -> 8 [] c = "9" -> 9

SpaceChars == {" "}

\* first index at or after i that holds no white space (Len(s)+1 when none)
RECURSIVE SkipSpace(_, _)
SkipSpace(s, i) ==
    IF i <= Len(s) /\ s[i] \in SpaceChars THEN SkipSpace(s, i + 1) ELSE i

\* the run of decimal digits of s starting at i: [val, n digits]
RECURSIVE DigitRun(_, _, _)
DigitRun(s, i, acc) ==
    IF i <= Len(s) /\ s[i] \in DigitChars
    THEN DigitRun(s, i + 1,
                  [val |-> acc.val * 10 + DigitVal(s[i]), n |-> acc.n + 1])
    ELSE acc

\* std::stoll(number): leading white space, an optional sign, then the longest
\* run of digits; whatever follows the digits is ignored. It throws
\* invalid_argument when there is no digit. (out_of_range needs more than 18
\* digits; the values of the model are far shorter.)
stoll(number) ==
    LET i == SkipSpace(number, 1)
        signed == i <= Len(number) /\ number[i] \in {"-", "+"}
        neg == signed /\ number[i] = "-"
        j == IF signed THEN i + 1 ELSE i
        run == DigitRun(number, j, [val |-> 0, n |-> 0])
    IN  IF run.n = 0
        THEN [throws |-> TRUE, val |-> 0]
        ELSE [throws |-> FALSE, val |-> IF neg THEN 0 - run.val ELSE run.val]

\* parseNumber: [exit |-> the program exits with EXIT_FAILURE, val |-> the
\* number]. The narrowing of the long long to int leaves numbers of fewer than
\* ten digits as they are.
parseNumber(number) ==
    LET r == stoll(number)
    IN  IF r.throws THEN [exit |-> TRUE, val |-> 0]
        ELSE [exit |-> FALSE, val |-> r.val]

\* correctPath: append the separator unless the path already ends in it
correctPath(path) ==
    IF Last(path) # "/" THEN path \o <<"/">> ELSE path


-----------------------------------------------------------------------------
(* struct Request and parseArgs *)

EXIT_SUCCESS == 0
EXIT_FAILURE == 1

\* Request request; of main: the flags are false, neededSizeArea is EMPTY. The
\* numeric fields have no initialiser; they are only read behind their flags.
NewRequest ==
    [filePath |-> <<>>,
     inumNeeded |-> FALSE, nameNeeded |-> FALSE, sizeNeeded |-> FALSE,
     nlinksNeeded |-> FALSE, execNeeded |-> FALSE,
     inodeNumber |-> 0, name |-> <<>>, executionPath |-> <<>>,
     nlinkNumber |-> 0, size |-> 0, neededSizeArea |-> "EMPTY"]

\* value[0]: the terminating NUL for an empty value
FirstChar(value) == IF Len(value) = 0 THEN "NUL" ELSE value[1]

\* one pass of the loop body of parseArgs for the pair (argument, value):
\* [exit |-> exit(EXIT_FAILURE) was called, req |-> the request afterwards,
\*  err |-> what printErr was given]
parseOne(req, argument, value) ==
    IF argument = FlagInum \/ argument = FlagNlinks
    THEN LET n == parseNumber(value)
         IN  IF n.exit THEN [exit |-> TRUE, req |-> req, err |-> <<"stoll">>]
             ELSE IF argument = FlagInum
             THEN [exit |-> FALSE, req |-> [req EXCEPT !.inodeNumber = n.val],
                   err |-> <<>>]
             ELSE [exit |-> FALSE, req |-> [req EXCEPT !.nlinkNumber = n.val],
                   err |-> <<>>]
    ELSE IF argument = FlagName
    THEN [exit |-> FALSE,
          req |-> [req EXCEPT !.nameNeeded = TRUE, !.name = value], err |-> <<>>]
    ELSE IF argument = FlagPath
    THEN [exit |-> FALSE,
          req |-> [req EXCEPT !.nameNeeded = TRUE, !.name = value], err |-> <<>>]
    ELSE IF argument = FlagSize
    THEN LET c == FirstChar(value)
             area == IF c = "-" THEN "LESS"
                     ELSE IF c = "=" THEN "EQUAL"
                     ELSE IF c = "+" THEN "GREATER" ELSE "EMPTY"
         IN  IF area = "EMPTY"
             THEN [exit |-> TRUE, req |-> req,
                   err |-> <<"Invalid value for -size argument">>]
             ELSE LET n == parseNumber(Tail(value))
                  IN  IF n.exit
                      THEN [exit |-> TRUE,
                            req |-> [req EXCEPT !.neededSizeArea = area],
                            err |-> <<"stoll">>]
                      ELSE [exit |-> FALSE,
                            req |-> [req EXCEPT !.neededSizeArea = area,
                                                !.size = n.val],
                            err |-> <<>>]
    ELSE IF argument = FlagExec
    THEN [exit |-> FALSE,
          req |-> [req EXCEPT !.execNeeded = TRUE, !.executionPath = value],
          err |-> <<>>]
    ELSE [exit |-> FALSE, req |-> req, err |-> <<>>]

\* for (int i = 2; i < argc; i += 2), argc = Len(args) + 1
RECURSIVE parseLoop(_, _, _)
parseLoop(req, args, i) ==
    IF i < Len(args) + 1
    THEN LET r == parseOne(req, args[i], args[i + 1])
         IN  IF r.exit THEN r ELSE parseLoop(r.req, args, i + 2)
    ELSE [exit |-> FALSE, req |-> [req EXCEPT !.filePath = args[1]], err |-> <<>>]

parseArgs(req, args) == parseLoop(req, args, 2)

-----------------------------------------------------------------------------
(* checkStat *)

\* struct stat as lstat fills it; S_IFMT bits of st_mode are kept as a kind
S_ISDIR(sb) == sb.kind = "dir"

\* struct stat sb{}: value-initialised, every field zero
ZeroStat == [kind |-> "none", st_ino |-> 0, st_nlink |-> 0, st_size |-> 0]

\* checkStat with the LESS and GREATER comparisons off by one
checkStatOffByOne(req, sb, name) ==
    IF req.inumNeeded /\ sb.st_ino # req.inodeNumber THEN FALSE
    ELSE IF req.nlinksNeeded /\ sb.st_nlink # req.nlinkNumber THEN FALSE
    ELSE IF req.nameNeeded /\ name # req.name THEN FALSE
    ELSE IF req.sizeNeeded
    THEN IF req.neededSizeArea = "LESS"
         THEN ~(sb.st_size > req.size)
         ELSE IF req.neededSizeArea = "EQUAL"
         THEN ~(sb.st_size # req.size)
         ELSE IF req.neededSizeArea = "GREATER"
         THEN ~(sb.st_size < req.size)
         ELSE TRUE
    ELSE TRUE

checkStat(req, sb, name) ==
    IF req.inumNeeded /\ sb.st_ino # req.inodeNumber THEN FALSE
    ELSE IF req.nlinksNeeded /\ sb.st_nlink # req.nlinkNumber THEN FALSE
    ELSE IF req.nameNeeded /\ name # req.name THEN FALSE
    ELSE IF req.sizeNeeded
    THEN IF req.neededSizeArea = "LESS"
         THEN ~(sb.st_size >= req.size)
         ELSE IF req.neededSizeArea = "EQUAL"
         THEN ~(sb.st_size # req.size)
         ELSE IF req.neededSizeArea = "GREATER"
         THEN ~(sb.st_size <= req.size)
         ELSE TRUE
    ELSE TRUE

-----------------------------------------------------------------------------
(* The directory tree the system calls act on *)

NULL == 0

Entry(n, k, ino, nl, sz) ==
    [name |-> n, kind |-> k, st_ino |-> ino, st_nlink |-> nl, st_size |-> sz]

Dot == Entry(<<".">>, "dir", 9, 2, 3)
DotDot == Entry(<<".", ".">>, "dir", 8, 2, 3)

\* files a and b and a subdirectory d that holds the file c
TreeA ==
    (<<"t">> :> <<Dot, DotDot,
                  Entry(<<"a">>, "file", 1, 1, 2),
                  Entry(<<"d">>, "dir", 4, 2, 3),
                  Entry(<<"b">>, "file", 2, 2, 0)>>)
    @@ (<<"t", "/", "d">> :> <<Dot, DotDot, Entry(<<"c">>, "file", 3, 1, 1)>>)

\* two subdirectories d and e, a symbolic link l to d and a file b
TreeB ==
    (<<"t">> :> <<Dot, DotDot,
                  Entry(<<"d">>, "dir", 4, 2, 3),
                  Entry(<<"l">>, "link", 5, 1, 1),
                  Entry(<<"e">>, "dir", 7, 2, 3),
                  Entry(<<"b">>, "file", 2, 1, 2)>>)
    @@ (<<"t", "/", "d">> :> <<Dot, DotDot, Entry(<<"a">>, "file", 6, 1, 1)>>)
    @@ (<<"t", "/", "e">> :> <<Dot, DotDot>>)

\* an empty directory
TreeC == (<<"t">> :> <<Dot, DotDot>>)

Trees == {TreeA, TreeB, TreeC}

\* a directory path as the kernel resolves it: a trailing separator is dropped
Canon(path) ==
    IF Len(path) > 1 /\ Last(path) = "/" THEN SubSeq(path, 1, Len(path) - 1)
    ELSE path

\* what a successful lstat stores in sb (the link itself, never its target)
StatOf(file) ==
    [kind |-> file.kind, st_ino |-> file.st_ino, st_nlink |-> file.st_nlink,
     st_size |-> file.st_size]

-----------------------------------------------------------------------------
(* Command lines *)

Roots == {<<"t">>, <<"t", "/">>, <<"x">>}

\* FLAG VALUE pairs, well formed and malformed
Pairs ==
    {<<FlagInum, <<"1">>>>, <<FlagInum, <<"1", "a">>>>, <<FlagInum, <<"a">>>>,
     <<FlagNlinks, <<"2">>>>,
     <<FlagName, <<"a">>>>, <<FlagName, <<"c">>>>, <<FlagPath, <<"b">>>>,
     <<FlagSize, <<"+", "1">>>>, <<FlagSize, <<"=", "0">>>>,
     <<FlagSize, <<"-", "1">>>>,
     <<FlagSize, <<"*", "5">>>>, <<FlagSize, <<"+">>>>,
     <<FlagExec, <<"p">>>>, <<FlagOther, <<"q">>>>}

\* an argument that no value follows
Lone == {FlagName, FlagExec, <<"a">>}

RECURSIVE TailsOfLen(_)
TailsOfLen(k) ==
    IF k = 0 THEN {<<>>}
    ELSE IF k = 1 THEN {<<f>> : f \in Lone}
    ELSE {<<p[1], p[2]>> \o t : p \in Pairs, t \in TailsOfLen(k - 2)}

CmdLines ==
    {<<>>} \cup {<<r>> \o t : r \in Roots,
                              t \in UNION {TailsOfLen(k) : k \in 0..MaxArgs}}

-----------------------------------------------------------------------------
(* State *)

NoNode == [dir |-> NULL, path |-> <<>>]

NoHist ==
    [rootOpened |-> FALSE,   \* opendir of the root returned a handle
     lstatFailed |-> {},     \* full paths whose lstat returned -1
     evaluated |-> {},       \* [path, kind] of the entries checkStat was called on
     emitted |-> <<>>,       \* the directory entry behind each path of result
     openOk |-> {},          \* subdirectory paths opendir returned a handle for
     openFailed |-> {},      \* subdirectory paths opendir returned NULL for
     pushed |-> <<>>,        \* path of every node pushed, in push order
     popped |-> <<>>,        \* path of every node popped, in pop order
     nullReaddir |-> 0,      \* calls readdir(NULL)
     nullClosedir |-> 0]     \* calls closedir(NULL)

NoChk ==
    [req |-> NewRequest, sb |-> ZeroStat, name |-> <<>>, called |-> FALSE,
     ret |-> FALSE]

Init ==
    /\ argv \in CmdLines
    /\ fs \in Trees
    /\ pc = "main"
    /\ request = NewRequest
    /\ q = <<>>
    /\ current = NoNode
    /\ result = <<>>
    /\ handles = <<>>
    /\ stderr = <<>>
    /\ stdout = <<>>
    /\ summary = <<>>
    /\ children = 0
    /\ childArgv = <<>>
    /\ forkFailed = FALSE
    /\ exitCode = <<>>
    /\ hist = NoHist
    /\ chk = NoChk

-----------------------------------------------------------------------------
(* main and parseArgs *)

argc == Len(argv) + 1

\* main, lines 256-260: the argument-count check
MainCheckArgc ==
    /\ pc = "main"
    /\ IF argc < 2 \/ (argc - 2) % 2 = 1
       THEN /\ stderr' = Append(stderr, "Invalid number of arguments")
            /\ exitCode' = <<EXIT_FAILURE>>
            /\ pc' = "exited"
       ELSE /\ pc' = "parseArgs"
            /\ UNCHANGED <<stderr, exitCode>>
    /\ UNCHANGED <<argv, fs, request, q, current, result, handles, stdout,
                   summary, children, childArgv, forkFailed, hist, chk>>

\* main, line 262: parseArgs(request, argc, argv), which may exit
MainParseArgs ==
    /\ pc = "parseArgs"
    /\ LET r == parseArgs(request, argv)
       IN  /\ request' = r.req
           /\ IF r.exit
              THEN /\ stderr' = stderr \o r.err
                   /\ exitCode' = <<EXIT_FAILURE>>
                   /\ pc' = "exited"
              ELSE /\ pc' = "bfs"
                   /\ UNCHANGED <<stderr, exitCode>>
    /\ UNCHANGED <<argv, fs, q, current, result, handles, stdout, summary,
                   children, childArgv, forkFailed, hist, chk>>

-----------------------------------------------------------------------------
(* bfs *)

\* opendir(path) can return a handle only for a directory of the tree
CanOpen(path) == Canon(path) \in DOMAIN fs

NewHandle(path) == [path |-> path, pos |-> 1, closes |-> 0]

\* the node a stack would hand out
Back(queue) == queue[Len(queue)]

\* q.front()
Front(queue) == Head(queue)

\* bfs, lines 199-202 and 243-245: open the root, push it, and either enter
\* the loop or report the failure and return
BfsOpenRoot ==
    /\ pc = "bfs"
    /\ \E opened \in BOOLEAN :
         LET root == IF opened /\ CanOpen(request.filePath)
                     THEN Len(handles) + 1 ELSE NULL
         IN  /\ handles' = IF root # NULL
                           THEN Append(handles, NewHandle(request.filePath))
                           ELSE handles
             /\ q' = Append(q, [dir |-> root, path |-> request.filePath])
             /\ hist' = [hist EXCEPT !.rootOpened = (root # NULL),
                                     !.pushed = Append(@, request.filePath)]
             /\ IF root # NULL
                THEN /\ pc' = "while"
                     /\ UNCHANGED stderr
                ELSE /\ stderr' = Append(stderr, "Unable to access root directory")
                     /\ pc' = "returned"
    /\ UNCHANGED <<argv, fs, request, current, result, stdout, summary,
                   children, childArgv, forkFailed, exitCode, chk>>

\* bfs, lines 203-205: current = q.front(); q.pop()
BfsDequeue ==
    /\ pc = "while"
    /\ q # <<>>
    /\ current' = Front(q)
    /\ q' = Tail(q)
    /\ hist' = [hist EXCEPT !.popped = Append(@, Front(q).path)]
    /\ pc' = "readdir"
    /\ UNCHANGED <<argv, fs, request, result, handles, stderr, stdout, summary,
                   children, childArgv, forkFailed, exitCode, chk>>

\* bfs, lines 203 and 247: the queue is empty, the walk returns
BfsReturn ==
    /\ pc = "while"
    /\ q = <<>>
    /\ pc' = "returned"
    /\ UNCHANGED <<argv, fs, request, q, current, result, handles, stderr,
                   stdout, summary, children, childArgv, forkFailed, exitCode,
                   hist, chk>>

\* bfs, lines 207-238: readdir hands out the next entry of current.dir and the
\* loop body handles it. lstat returns 0 or -1; on -1 sb keeps the zeroes of
\* its initialisation.
BfsReadEntry ==
    /\ pc = "readdir"
    /\ current.dir # NULL
    /\ LET h == current.dir
           ents == fs[Canon(handles[h].path)]
           pos == handles[h].pos
       IN  /\ pos <= Len(ents)
           /\ \E lret \in {0, -1}, opened \in BOOLEAN :
                LET file == ents[pos]
                    fileName == file.name
                    filePath == correctPath(current.path)
                    fullPath == filePath \o fileName
                    named == ~(fileName = <<".">> \/ fileName = <<".", ".">>)
                    sb == IF lret = 0 THEN StatOf(file) ELSE ZeroStat
                    statOk == named /\ lret # 1
                    isDir == statOk /\ S_ISDIR(sb)
                    nextDirectory == IF opened /\ CanOpen(fullPath)
                                     THEN Len(handles) + 1 ELSE NULL
                    tested == statOk /\ ~S_ISDIR(sb)
                    accepted == tested /\ checkStat(request, sb, fileName)
                    advanced == [handles EXCEPT ![h].pos = pos + 1]
                IN  /\ handles' = IF isDir /\ nextDirectory # NULL
                                  THEN Append(advanced, NewHandle(fullPath))
                                  ELSE advanced
                    /\ q' = IF isDir /\ nextDirectory = NULL
                            THEN Append(q, [dir |-> nextDirectory,
                                            path |-> fullPath])
                            ELSE q
                    /\ result' = IF accepted THEN Append(result, fullPath)
                                 ELSE result
                    /\ stderr' = IF named /\ ~statOk
                                 THEN Append(stderr, "Unable to access file")
                                 ELSE stderr
                    /\ hist' =
                         [hist EXCEPT
                            !.lstatFailed = IF named /\ lret = -1
                                            THEN @ \cup {fullPath} ELSE @,
                            !.evaluated = IF tested
                                          THEN @ \cup {[path |-> fullPath,
                                                        kind |-> file.kind]}
                                          ELSE @,
                            !.emitted = IF accepted THEN Append(@, file) ELSE @,
                            !.openOk = IF isDir /\ nextDirectory # NULL
                                       THEN @ \cup {fullPath} ELSE @,
                            !.openFailed = IF isDir /\ nextDirectory = NULL
                                           THEN @ \cup {fullPath} ELSE @,
                            !.pushed = IF isDir /\ nextDirectory = NULL
                                       THEN Append(@, fullPath) ELSE @]
    /\ UNCHANGED <<argv, fs, pc, request, current, stdout, summary, children,
                   childArgv, forkFailed, exitCode, chk>>

\* bfs, line 207: readdir returns a null pointer at the end of the directory
BfsReaddirEnd ==
    /\ pc = "readdir"
    /\ current.dir # NULL
    /\ handles[current.dir].pos > Len(fs[Canon(handles[current.dir].path)])
    /\ pc' = "closedir"
    /\ UNCHANGED <<argv, fs, request, q, current, result, handles, stderr,
                   stdout, summary, children, childArgv, forkFailed, exitCode,
                   hist, chk>>

\* bfs, line 207: readdir(NULL) is undefined. A C library that dereferences
\* the pointer ends the process with a signal ...
BfsReaddirNullCrash ==
    /\ pc = "readdir"
    /\ current.dir = NULL
    /\ hist' = [hist EXCEPT !.nullReaddir = @ + 1]
    /\ pc' = "crashed"
    /\ UNCHANGED <<argv, fs, request, q, current, result, handles, stderr,
                   stdout, summary, children, childArgv, forkFailed, exitCode,
                   chk>>

\* ... and one that checks it returns a null pointer (EBADF)
BfsReaddirNullEnd ==
    /\ pc = "readdir"
    /\ current.dir = NULL
    /\ hist' = [hist EXCEPT !.nullReaddir = @ + 1]
    /\ pc' = "closedir"
    /\ UNCHANGED <<argv, fs, request, q, current, result, handles, stderr,
                   stdout, summary, children, childArgv, forkFailed, exitCode,
                   chk>>

\* bfs, line 240: closedir(current.dir)
BfsCloseDir ==
    /\ pc = "closedir"
    /\ IF current.dir # NULL
       THEN /\ handles' = [handles EXCEPT ![current.dir].closes = @ + 1]
            /\ UNCHANGED hist
       ELSE /\ hist' = [hist EXCEPT !.nullClosedir = @ + 1]
            /\ UNCHANGED handles
    /\ pc' = "while"
    /\ UNCHANGED <<argv, fs, request, q, current, result, stderr, stdout,
                   summary, children, childArgv, forkFailed, exitCode, chk>>

-----------------------------------------------------------------------------
(* main: disposal of the result *)

\* main, lines 269-276: no -exec, print every path and exit(EXIT_SUCCESS)
MainPrint ==
    /\ pc = "returned"
    /\ ~request.execNeeded
    /\ stdout' = stdout \o result
    /\ exitCode' = <<EXIT_SUCCESS>>
    /\ pc' = "exited"
    /\ UNCHANGED <<argv, fs, request, q, current, result, handles, stderr,
                   summary, children, childArgv, forkFailed, hist, chk>>

\* main, lines 266-267 and 276, and execute: fork; the child calls execve with
\* [command, files...] and exits with a status; the parent waits and prints
\* the summary, then exit(EXIT_SUCCESS). A failed fork exits with EXIT_FAILURE.
MainExecute ==
    /\ pc = "returned"
    /\ request.execNeeded
    /\ \E forked \in BOOLEAN, execOk \in BOOLEAN, status \in {0, 1},
          waited \in BOOLEAN :
         IF ~forked
         THEN /\ forkFailed' = TRUE
              /\ stderr' = Append(stderr, "Unable to create child process")
              /\ exitCode' = <<EXIT_FAILURE>>
              /\ UNCHANGED <<children, childArgv, summary>>
         ELSE /\ children' = children + 1
              /\ childArgv' = <<request.executionPath>> \o result
              /\ summary' = IF waited
                            THEN <<IF execOk THEN status ELSE EXIT_FAILURE>>
                            ELSE summary
              /\ stderr' = (IF execOk THEN stderr
                            ELSE Append(stderr, "Execution failed"))
                           \o (IF waited THEN <<>> ELSE <<"Error while waiting">>)
              /\ exitCode' = <<EXIT_SUCCESS>>
              /\ UNCHANGED forkFailed
    /\ pc' = "exited"
    /\ UNCHANGED <<argv, fs, request, q, current, result, handles, stdout,
                   hist, chk>>

Next ==
    \/ MainCheckArgc
    \/ MainParseArgs
    \/ BfsOpenRoot
    \/ BfsDequeue
    \/ BfsReturn
    \/ BfsReadEntry
    \/ BfsReaddirEnd
    \/ BfsReaddirNullCrash
    \/ BfsReaddirNullEnd
    \/ BfsCloseDir
    \/ MainPrint
    \/ MainExecute

Spec == Init /\ [][Next]_vars

-----------------------------------------------------------------------------
(* checkStat called on its own *)

Areas == {"EMPTY", "LESS", "GREATER", "EQUAL"}

NameInputs == {<<"a">>, <<"c">>}

ReqInputs ==
    {[NewRequest EXCEPT !.inumNeeded = f[1], !.nlinksNeeded = f[2],
                        !.nameNeeded = f[3], !.sizeNeeded = f[4],
                        !.inodeNumber = nums[1], !.nlinkNumber = nums[2],
                        !.size = nums[3], !.name = nm, !.neededSizeArea = ar] :
        f \in BOOLEAN \X BOOLEAN \X BOOLEAN \X BOOLEAN,
        nums \in {1, 2} \X {1, 2} \X (0..MaxSize),
        nm \in NameInputs, ar \in Areas}

StatInputs ==
    {[kind |-> "file", st_ino |-> i, st_nlink |-> n, st_size |-> sz] :
        i \in {1, 2}, n \in {1, 2}, sz \in 0..MaxSize}

InitCheck ==
    /\ chk \in {[req |-> r, sb |-> sb, name |-> nm, called |-> FALSE,
                 ret |-> FALSE] :
                   r \in ReqInputs, sb \in StatInputs, nm \in NameInputs}
    /\ argv = <<>>
    /\ fs = TreeC
    /\ pc = "checkStat"
    /\ request = NewRequest
    /\ q = <<>>
    /\ current = NoNode
    /\ result = <<>>
    /\ handles = <<>>
    /\ stderr = <<>>
    /\ stdout = <<>>
    /\ summary = <<>>
    /\ children = 0
    /\ childArgv = <<>>
    /\ forkFailed = FALSE
    /\ exitCode = <<>>
    /\ hist = NoHist

\* one call checkStat(req, sb, name): the arguments are const references
CheckStatCall ==
    /\ pc = "checkStat"
    /\ ~chk.called
    /\ chk' = [chk EXCEPT !.called = TRUE,
                          !.ret = checkStat(chk.req, chk.sb, chk.name)]
    /\ UNCHANGED <<argv, fs, pc, request, q, current, result, handles, stderr,
                   stdout, summary, children, childArgv, forkFailed, exitCode,
                   hist>>

NextCheck == CheckStatCall

SpecCheck == InitCheck /\ [][NextCheck]_vars

-----------------------------------------------------------------------------
(* What the tree and the command line say, for the properties below *)

Named(e) == e.name # <<".">> /\ e.name # <<".", ".">>

\* full paths of the non-directory entries below the directory path
RECURSIVE AllNonDirs(_)
AllNonDirs(path) ==
    LET ents == fs[Canon(path)]
        base == correctPath(path)
    IN  {base \o ents[k].name :
            k \in {n \in 1..Len(ents) : Named(ents[n]) /\ ents[n].kind # "dir"}}
        \cup UNION {AllNonDirs(base \o ents[k].name) :
            k \in {n \in 1..Len(ents) : Named(ents[n]) /\ ents[n].kind = "dir"}}

\* indices of the FLAG of every FLAG VALUE pair of the command line
FlagIndices == {k \in 2..Len(argv) : k % 2 = 0 /\ k + 1 <= Len(argv)}

FilterFlags == {FlagInum, FlagNlinks, FlagName, FlagPath, FlagSize}

NoFilterSupplied == \A k \in FlagIndices : argv[k] \notin FilterFlags

ExecSupplied == \E k \in FlagIndices : argv[k] = FlagExec

NoAccessFailure == hist.lstatFailed = {} /\ hist.openFailed = {}

\* the entry e satisfies the filter FLAG VALUE
Satisfies(e, flag, value) ==
    /\ flag = FlagInum => e.st_ino = stoll(value).val
    /\ flag = FlagNlinks => e.st_nlink = stoll(value).val
    /\ flag = FlagName => e.name = value
    /\ flag = FlagSize =>
         LET n == stoll(Tail(value)).val
         IN  /\ value[1] = "-" => e.st_size < n
             /\ value[1] = "=" => e.st_size = n
             /\ value[1] = "+" => e.st_size > n

\* an optional sign and then digits only
IsNumeric(s) ==
    LET body == IF Len(s) > 0 /\ s[1] \in {"-", "+"} THEN Tail(s) ELSE s
    IN  Len(body) > 0 /\ \A k \in 1..Len(body) : body[k] \in DigitChars

\* the command line is malformed: an odd number of arguments after ROOT, a
\* non-numeric value for -inum, -nlinks or -size, or a bad -size prefix
Malformed ==
    \/ Len(argv) >= 1 /\ (Len(argv) - 1) % 2 = 1
    \/ \E k \in FlagIndices :
         \/ argv[k] \in {FlagInum, FlagNlinks} /\ ~IsNumeric(argv[k + 1])
         \/ argv[k] = FlagSize /\ FirstChar(argv[k + 1]) \notin {"-", "=", "+"}
         \/ argv[k] = FlagSize /\ FirstChar(argv[k + 1]) \in {"-", "=", "+"}
              /\ ~IsNumeric(Tail(argv[k + 1]))

\* number of separators in a path
Depth(path) == Cardinality({k \in 1..Len(path) : path[k] = "/"})

\* place of the i-th emitted entry in its directory, as readdir returns it
DirOf(i) == SubSeq(result[i], 1, Len(result[i]) - Len(hist.emitted[i].name))

PlaceOf(i) ==
    LET ents == fs[Canon(DirOf(i))]
    IN  CHOOSE k \in 1..Len(ents) : ents[k].name = hist.emitted[i].name

Count(seq, x) == Cardinality({k \in 1..Len(seq) : seq[k] = x})

\* what checkStat has to return: every enabled field matches
Matches(req, sb, name) ==
    /\ req.inumNeeded => sb.st_ino = req.inodeNumber
    /\ req.nlinksNeeded => sb.st_nlink = req.nlinkNumber
    /\ req.nameNeeded => name = req.name
    /\ req.sizeNeeded =>
         /\ req.neededSizeArea = "LESS" => sb.st_size < req.size
         /\ req.neededSizeArea = "EQUAL" => sb.st_size = req.size
         /\ req.neededSizeArea = "GREATER" => sb.st_size > req.size

-----------------------------------------------------------------------------
(* Properties *)

\* C1: when bfs returns, every handle opendir returned (the root and every
\* subdirectory opened during the walk) has been closed exactly once.
C1_EveryHandleClosedOnce ==
    pc = "returned" => \A h \in 1..Len(handles) : handles[h].closes = 1

\* C2: with no filter flag on the command line, a root that opens and no
\* access failure, the result of bfs holds exactly the full paths of all
\* non-directory entries at every depth below the root, each once.
C2_NoFilterFindsEverything ==
    (pc = "returned" /\ NoFilterSupplied /\ hist.rootOpened /\ NoAccessFailure)
        => /\ Range(result) = AllNonDirs(request.filePath)
           /\ \A i, j \in 1..Len(result) : result[i] = result[j] => i = j

\* C3: every path of the walker's output belongs to an entry that satisfies
\* every filter flag supplied on the command line (-inum, -nlinks, -name,
\* -size with its relation). Stated for the runs in which no lstat and no
\* opendir fails, where the output depends on the parsed request alone.
C3_OutputSatisfiesSuppliedFlags ==
    (pc = "returned" /\ NoAccessFailure) =>
        \A i \in 1..Len(result) : \A k \in FlagIndices :
            Satisfies(hist.emitted[i], argv[k], argv[k + 1])

\* C4: checkStat returns true exactly when every enabled field of the request
\* matches the entry (inode, link count, exact name, size by LESS / EQUAL /
\* GREATER); with no field enabled it accepts every entry.
C4_CheckStatIsConjunction ==
    chk.called =>
        /\ chk.ret = Matches(chk.req, chk.sb, chk.name)
        /\ (~chk.req.inumNeeded /\ ~chk.req.nlinksNeeded /\ ~chk.req.nameNeeded
              /\ ~chk.req.sizeNeeded) => chk.ret

\* C4 witness: checkStat was called with the size field enabled (relation
\* LESS, st_size just below the threshold) together with the name field, and
\* accepted; and it was called on a request that it rejected.
C4_Witness ==
    /\ chk.called
    /\ chk.ret
    /\ chk.req.sizeNeeded /\ chk.req.neededSizeArea = "LESS"
    /\ chk.sb.st_size + 1 = chk.req.size
    /\ chk.req.nameNeeded /\ chk.req.inumNeeded /\ chk.req.nlinksNeeded

C6_LstatFailureSkipsEntry ==
    /\ hist.lstatFailed \cap {e.path : e \in hist.evaluated} = {}
    /\ hist.lstatFailed \cap Range(result) = {}
    /\ Count(stderr, "Unable to access file") = Cardinality(hist.lstatFailed)

\* C7: a run forks exactly one child if and only if -exec was supplied and
\* the root directory was opened, and never more than one (runs in which fork
\* itself fails are left aside).
C7_OneChildIffExecAndRootOpened ==
    /\ children <= 1
    /\ (pc = "exited" /\ ~forkFailed)
         => (children = 1 <=> (ExecSupplied /\ hist.rootOpened))

\* C8: a malformed command line ends the program with a non-zero exit status
\* before the walk starts: no directory is opened, nothing is written to
\* standard output and no child is forked.
C8_MalformedExitsBeforeWalk ==
    Malformed =>
        /\ pc \in {"main", "parseArgs", "exited"}
        /\ pc = "exited" => exitCode = <<EXIT_FAILURE>>
        /\ hist.pushed = <<>> /\ handles = <<>>
        /\ stdout = <<>>
        /\ children = 0

\* C9: every path of the result names a non-directory entry, no directory is
\* ever evaluated by the predicate, and the root path is never in the result.
C9_OnlyNonDirectories ==
    /\ \A i \in 1..Len(result) :
         hist.emitted[i].kind # "dir" /\ result[i] # request.filePath
    /\ \A e \in hist.evaluated : e.kind # "dir"

\* C10: a subdirectory is enqueued exactly when opendir on it succeeded,
\* every node taken off the queue inside the loop holds a non-null handle,
\* and readdir and closedir are never called with a null handle.
C10_EnqueueIffOpened ==
    /\ \A p \in hist.openOk : p \in Range(hist.pushed)
    /\ \A p \in hist.openFailed : p \notin Range(hist.pushed)
    /\ pc \in {"readdir", "closedir"} => current.dir # NULL
    /\ hist.nullReaddir = 0 /\ hist.nullClosedir = 0

=============================================================================
